---- MODULE Spec2Model ----
(***************************************************************************)
(* next-matching-day: the three recurrence searches of src/lib.rs          *)
(* (find_next_weekday, find_next_day_of_month, find_next_annual_date)      *)
(* over chrono's NaiveDate, a proleptic Gregorian date whose year lies in  *)
(* MIN_YEAR..MAX_YEAR.  A date is a record [year, month, day]; an          *)
(* Option<NaiveDate> is a sequence of length 0 (None) or 1 (Some).         *)
(***************************************************************************)
EXTENDS Integers, Sequences, FiniteSets, TLC

VARIABLES current_date, op, next_weekday, next_month, next_day, result,
          iterations, iter

vars == <<current_date, op, next_weekday, next_month, next_day, result,
          iterations, iter>>

(***************************************************************************)
(* Bounds of the model.                                                    *)
(***************************************************************************)
\* years on either side of the non-leap century year 2100 that inputs cover
CenturyWindow == 4
\* number of years at the top of NaiveDate's range that inputs cover
EdgeWindow == 3
\* largest day argument passed to find_next_day_of_month and
\* find_next_annual_date (valid: 1..31)
MaxDayArg == 33
\* largest month argument passed to find_next_annual_date (valid: 1..12)
MaxMonthArg == 13
\* how many times a result is fed back as the next current_date
MaxIter == 2

(***************************************************************************)
(* chrono::NaiveDate                                                       *)
(***************************************************************************)
MAX_YEAR == 262142
MIN_YEAR == 0 - 262143

None == <<>>
Some(d) == <<d>>

NaiveDate(y, m, d) == [year |-> y, month |-> m, day |-> d]

is_leap_year(y) == (y % 4 = 0) /\ ((y % 100 # 0) \/ (y % 400 = 0))

ndays_in_month(y, m) ==
    IF m \in {4, 6, 9, 11} THEN 30
    ELSE IF m = 2 THEN (IF is_leap_year(y) THEN 29 ELSE 28)
    ELSE 31

\* NaiveDate::from_ymd_opt: None unless (y, m, d) is a date of the range
from_ymd_opt(y, m, d) ==
    IF /\ y >= MIN_YEAR /\ y <= MAX_YEAR
       /\ m >= 1 /\ m <= 12
       /\ d >= 1 /\ d <= ndays_in_month(y, m)
    THEN Some(NaiveDate(y, m, d))
    ELSE None

\* Datelike::with_day: same year and month, another day
with_day(date, d) == from_ymd_opt(date.year, date.month, d)

\* succ_opt without the range check at the end of the year
succ_opt_unchecked(date) ==
    IF date.day < ndays_in_month(date.year, date.month)
    THEN Some(NaiveDate(date.year, date.month, date.day + 1))
    ELSE IF date.month < 12
    THEN Some(NaiveDate(date.year, date.month + 1, 1))
    ELSE Some(NaiveDate(date.year + 1, 1, 1))

\* NaiveDate::succ_opt: the following day, None after NaiveDate::MAX
succ_opt(date) ==
    IF date.day < ndays_in_month(date.year, date.month)
    THEN Some(NaiveDate(date.year, date.month, date.day + 1))
    ELSE IF date.month < 12
    THEN Some(NaiveDate(date.year, date.month + 1, 1))
    ELSE from_ymd_opt(date.year + 1, 1, 1)

\* NaiveDate::checked_add_days(Days::new(n))
RECURSIVE checked_add_days(_, _)
checked_add_days(date, n) ==
    IF n = 0 THEN Some(date)
    ELSE LET s == succ_opt(date)
         IN  IF s = None THEN None ELSE checked_add_days(s[1], n - 1)

\* NaiveDate::checked_add_months(Months::new(n)): the day is clamped to the
\* length of the month reached; None when the year leaves the range
checked_add_months(date, n) ==
    IF n = 0 THEN Some(date)
    ELSE LET total == (date.year * 12) + (date.month - 1) + n
             y     == total \div 12
             m     == (total % 12) + 1
             dmax  == ndays_in_month(y, m)
             d     == IF date.day > dmax THEN dmax ELSE date.day
         IN  IF y > MAX_YEAR \/ y < MIN_YEAR THEN None
             ELSE Some(NaiveDate(y, m, d))

\* Datelike::ordinal: day of the year, from 1
RECURSIVE days_before_month(_, _)
days_before_month(y, m) ==
    IF m = 1 THEN 0 ELSE days_before_month(y, m - 1) + ndays_in_month(y, m - 1)

ordinal(date) == days_before_month(date.year, date.month) + date.day

\* Datelike::num_days_from_ce: 0001-01-01 is day 1
num_days_from_ce(date) ==
    LET p == date.year - 1
    IN  (365 * p) + (p \div 4) - (p \div 100) + (p \div 400) + ordinal(date)

\* chrono::Weekday, Mon = 0 .. Sun = 6
Weekday == {"Mon", "Tue", "Wed", "Thu", "Fri", "Sat", "Sun"}

num_days_from_monday(w) ==
    CASE w = "Mon" -> 0 [] w = "Tue" -> 1 [] w = "Wed" -> 2 [] w = "Thu" -> 3
      [] w = "Fri" -> 4 [] w = "Sat" -> 5 [] w = "Sun" -> 6

weekday_from_index(i) ==
    CASE i = 0 -> "Mon" [] i = 1 -> "Tue" [] i = 2 -> "Wed" [] i = 3 -> "Thu"
      [] i = 4 -> "Fri" [] i = 5 -> "Sat" [] i = 6 -> "Sun"

\* Datelike::weekday
weekday(date) == weekday_from_index((num_days_from_ce(date) - 1) % 7)

\* Weekday::days_since: days from `other` forward to `w`, in 0..6
days_since(w, other) ==
    LET lhs == num_days_from_monday(w)
        rhs == num_days_from_monday(other)
    IN  IF lhs < rhs THEN (7 + lhs) - rhs ELSE lhs - rhs

\* PartialOrd of NaiveDate: a.gt(b)
gt(a, b) ==
    \/ a.year > b.year
    \/ a.year = b.year /\ a.month > b.month
    \/ a.year = b.year /\ a.month = b.month /\ a.day > b.day

(***************************************************************************)
(* src/lib.rs                                                              *)
(***************************************************************************)
\* find_next_weekday adding days_since as it is: 0 days on the same weekday
find_next_weekday_same_day(cur, wd) ==
    checked_add_days(cur, days_since(wd, weekday(cur)))

find_next_weekday(cur, wd) ==
    LET ds            == days_since(wd, weekday(cur))
        days_distance == ((ds + 6) % 7) + 1
    IN  checked_add_days(cur, days_distance)

\* the loop `for i in 1..=12`, from iteration i on
MONTH_SCAN == 12

\* month_scan returning the date checked_add_months clamped, whatever its day
RECURSIVE month_scan_clamped(_, _, _)
month_scan_clamped(cur, nd, i) ==
    IF i > MONTH_SCAN THEN [ret |-> None, i |-> i]
    ELSE LET a == checked_add_months(cur, i)
             r == IF a = None \/ nd < 1 \/ nd > 31 THEN None
                  ELSE IF with_day(a[1], nd) # None THEN with_day(a[1], nd)
                  ELSE a
         IN  IF r # None THEN [ret |-> r, i |-> i]
             ELSE month_scan_clamped(cur, nd, i + 1)

\* month_scan advancing a running date: i months are added to the date
\* the iteration before reached, not to current_date
RECURSIVE month_scan_cumulative(_, _, _)
month_scan_cumulative(cur, nd, i) ==
    IF i > MONTH_SCAN THEN [ret |-> None, i |-> i]
    ELSE LET a == checked_add_months(cur, (i * (i + 1)) \div 2)
             r == IF a = None THEN None ELSE with_day(a[1], nd)
         IN  IF r # None THEN [ret |-> r, i |-> i]
             ELSE month_scan_cumulative(cur, nd, i + 1)

\* month_scan whose loop starts one month late
RECURSIVE month_scan_skip(_, _, _)
month_scan_skip(cur, nd, i) ==
    IF i > MONTH_SCAN THEN [ret |-> None, i |-> i]
    ELSE LET a == checked_add_months(cur, i + 1)
             r == IF a = None THEN None ELSE with_day(a[1], nd)
         IN  IF r # None THEN [ret |-> r, i |-> i]
             ELSE month_scan_skip(cur, nd, i + 1)

\* ret is what the loop returns, i the iteration that returned it
\* (MONTH_SCAN + 1 when the loop runs out)
RECURSIVE month_scan(_, _, _)
month_scan(cur, nd, i) ==
    IF i > MONTH_SCAN THEN [ret |-> None, i |-> i]
    ELSE LET a == checked_add_months(cur, i)
             r == IF a = None THEN None ELSE with_day(a[1], nd)
         IN  IF r # None THEN [ret |-> r, i |-> i]
             ELSE month_scan(cur, nd, i + 1)

\* in_month with `<=` for `<`
in_month_inclusive(cur, nd) == IF cur.day <= nd THEN with_day(cur, nd) ELSE None

\* in_month building the date without validating the day
in_month_unchecked(cur, nd) ==
    IF cur.day < nd THEN Some(NaiveDate(cur.year, cur.month, nd)) ELSE None

\* the `if current_date.day() < next_day` shortcut: Some when it returns
in_month(cur, nd) == IF cur.day < nd THEN with_day(cur, nd) ELSE None

find_next_day_of_month(cur, nd) ==
    IF in_month(cur, nd) # None
    THEN in_month(cur, nd)
    ELSE month_scan(cur, nd, 1).ret

\* loop iterations find_next_day_of_month(cur, nd) runs, 0 for the shortcut
day_of_month_iterations(cur, nd) ==
    IF in_month(cur, nd) # None THEN 0 ELSE month_scan(cur, nd, 1).i

\* the loop `for i in 1..=8`, from iteration i on
YEAR_SCAN == 8

\* year_scan giving up after 4 years
RECURSIVE year_scan_short(_, _, _, _)
year_scan_short(cur_year, nm, nd, i) ==
    IF i > 4 THEN [ret |-> None, i |-> i]
    ELSE LET r == from_ymd_opt(cur_year + i, nm, nd)
         IN  IF r # None THEN [ret |-> r, i |-> i]
             ELSE year_scan_short(cur_year, nm, nd, i + 1)

\* year_scan counting the day from the first of the month, so that a day
\* past the end of the month rolls over into the next month
RECURSIVE year_scan_rollover(_, _, _, _)
year_scan_rollover(cur_year, nm, nd, i) ==
    IF i > YEAR_SCAN THEN [ret |-> None, i |-> i]
    ELSE LET f == from_ymd_opt(cur_year + i, nm, 1)
             r == IF f = None \/ nd < 1 THEN None
                  ELSE checked_add_days(f[1], nd - 1)
         IN  IF r # None THEN [ret |-> r, i |-> i]
             ELSE year_scan_rollover(cur_year, nm, nd, i + 1)

\* ret is what the loop returns, i the iteration that returned it
\* (YEAR_SCAN + 1 when the loop runs out)
RECURSIVE year_scan(_, _, _, _)
year_scan(cur_year, nm, nd, i) ==
    IF i > YEAR_SCAN THEN [ret |-> None, i |-> i]
    ELSE LET r == from_ymd_opt(cur_year + i, nm, nd)
         IN  IF r # None THEN [ret |-> r, i |-> i]
             ELSE year_scan(cur_year, nm, nd, i + 1)

\* this_year with `>=` for `>`
this_year_inclusive(cur, nm, nd) ==
    LET next_date == from_ymd_opt(cur.year, nm, nd)
    IN  IF next_date # None /\ ~gt(cur, next_date[1]) THEN next_date ELSE None

\* the current-year attempt: Some when it returns
this_year(cur, nm, nd) ==
    LET next_date == from_ymd_opt(cur.year, nm, nd)
    IN  IF next_date # None /\ gt(next_date[1], cur) THEN next_date ELSE None

find_next_annual_date(cur, nm, nd) ==
    IF this_year(cur, nm, nd) # None
    THEN this_year(cur, nm, nd)
    ELSE year_scan(cur.year, nm, nd, 1).ret

\* loop iterations find_next_annual_date(cur, nm, nd) runs, 0 when the
\* current-year attempt returns
annual_iterations(cur, nm, nd) ==
    IF this_year(cur, nm, nd) # None THEN 0 ELSE year_scan(cur.year, nm, nd, 1).i

(***************************************************************************)
(* The tests of src/lib.rs, evaluated on the definitions above.            *)
(***************************************************************************)
test_find_next_weekday ==
    /\ find_next_weekday(NaiveDate(2023, 10, 15), "Mon") = Some(NaiveDate(2023, 10, 16))
    /\ find_next_weekday(NaiveDate(2023, 10, 16), "Sun") = Some(NaiveDate(2023, 10, 22))
    /\ find_next_weekday(NaiveDate(2023, 10, 16), "Mon") = Some(NaiveDate(2023, 10, 23))
    /\ find_next_weekday(NaiveDate(2023, 10, 30), "Sun") = Some(NaiveDate(2023, 11, 5))
    /\ find_next_weekday(NaiveDate(2023, 12, 28), "Wed") = Some(NaiveDate(2024, 1, 3))
    /\ find_next_weekday(NaiveDate(2024, 2, 26), "Wed") = Some(NaiveDate(2024, 2, 28))
    /\ find_next_weekday(NaiveDate(2024, 2, 28), "Thu") = Some(NaiveDate(2024, 2, 29))
    /\ find_next_weekday(NaiveDate(2024, 2, 29), "Fri") = Some(NaiveDate(2024, 3, 1))
    /\ weekday(NaiveDate(2023, 10, 15)) = "Sun"
    /\ weekday(NaiveDate(2023, 12, 28)) = "Thu"

test_find_next_day_of_month ==
    /\ find_next_day_of_month(NaiveDate(2023, 10, 15), 20) = Some(NaiveDate(2023, 10, 20))
    /\ find_next_day_of_month(NaiveDate(2023, 10, 25), 10) = Some(NaiveDate(2023, 11, 10))
    /\ find_next_day_of_month(NaiveDate(2023, 10, 15), 15) = Some(NaiveDate(2023, 11, 15))
    /\ find_next_day_of_month(NaiveDate(2023, 9, 15), 31) = Some(NaiveDate(2023, 10, 31))
    /\ find_next_day_of_month(NaiveDate(2023, 1, 31), 31) = Some(NaiveDate(2023, 3, 31))
    /\ find_next_day_of_month(NaiveDate(2024, 2, 1), 29) = Some(NaiveDate(2024, 2, 29))
    /\ find_next_day_of_month(NaiveDate(2023, 2, 1), 29) = Some(NaiveDate(2023, 3, 29))

test_find_next_annual_date ==
    /\ find_next_annual_date(NaiveDate(2023, 5, 15), 6, 20) = Some(NaiveDate(2023, 6, 20))
    /\ find_next_annual_date(NaiveDate(2023, 8, 1), 7, 1) = Some(NaiveDate(2024, 7, 1))
    /\ find_next_annual_date(NaiveDate(2023, 5, 15), 5, 15) = Some(NaiveDate(2024, 5, 15))
    /\ find_next_annual_date(NaiveDate(2023, 5, 15), 5, 13) = Some(NaiveDate(2024, 5, 13))
    /\ find_next_annual_date(NaiveDate(2024, 3, 20), 2, 29) = Some(NaiveDate(2028, 2, 29))
    /\ find_next_annual_date(NaiveDate(2025, 2, 20), 2, 29) = Some(NaiveDate(2028, 2, 29))

(***************************************************************************)
(* Callers: a first call on an input date, then the result fed back as the *)
(* next current_date with the same target.                                 *)
(***************************************************************************)
InputYears ==
    ((2100 - CenturyWindow)..(2100 + CenturyWindow))
      \cup ((MAX_YEAR - EdgeWindow + 1)..MAX_YEAR)
      \cup {2000, 2023, 2024}

InputDates ==
    { NaiveDate(y, m, d) : y \in InputYears, m \in 1..12, d \in 1..31 }
      \cap { dt \in [year : InputYears, month : 1..12, day : 1..31] :
                dt.day <= ndays_in_month(dt.year, dt.month) }

\* day arguments passed to find_next_annual_date (valid: 1..31)
AnnualDays == 0..MaxDayArg

Init ==
    /\ current_date \in InputDates
    /\ op = "none"
    /\ next_weekday = "Mon"
    /\ next_month = 0
    /\ next_day = 0
    /\ result = None
    /\ iterations = 0
    /\ iter = 0

CallWeekday ==
    /\ op = "none"
    /\ \E w \in Weekday :
         /\ next_weekday' = w
         /\ result' = find_next_weekday(current_date, w)
    /\ iterations' = 0
    /\ op' = "weekday"
    /\ UNCHANGED <<current_date, next_month, next_day, iter>>

CallDayOfMonth ==
    /\ op = "none"
    /\ \E n \in 0..MaxDayArg :
         /\ next_day' = n
         /\ result' = find_next_day_of_month(current_date, n)
         /\ iterations' = day_of_month_iterations(current_date, n)
    /\ op' = "day_of_month"
    /\ UNCHANGED <<current_date, next_weekday, next_month, iter>>

CallAnnual ==
    /\ op = "none"
    /\ \E m \in 0..MaxMonthArg, d \in AnnualDays :
         /\ next_month' = m
         /\ next_day' = d
         /\ result' = find_next_annual_date(current_date, m, d)
         /\ iterations' = annual_iterations(current_date, m, d)
    /\ op' = "annual"
    /\ UNCHANGED <<current_date, next_weekday, iter>>

IterateWeekday ==
    /\ op = "weekday" /\ result # None /\ iter < MaxIter
    /\ current_date' = result[1]
    /\ result' = find_next_weekday(result[1], next_weekday)
    /\ iterations' = 0
    /\ iter' = iter + 1
    /\ UNCHANGED <<op, next_weekday, next_month, next_day>>

IterateDayOfMonth ==
    /\ op = "day_of_month" /\ result # None /\ iter < MaxIter
    /\ current_date' = result[1]
    /\ result' = find_next_day_of_month(result[1], next_day)
    /\ iterations' = day_of_month_iterations(result[1], next_day)
    /\ iter' = iter + 1
    /\ UNCHANGED <<op, next_weekday, next_month, next_day>>

IterateAnnual ==
    /\ op = "annual" /\ result # None /\ iter < MaxIter
    /\ current_date' = result[1]
    /\ result' = find_next_annual_date(result[1], next_month, next_day)
    /\ iterations' = annual_iterations(result[1], next_month, next_day)
    /\ iter' = iter + 1
    /\ UNCHANGED <<op, next_weekday, next_month, next_day>>

Next ==
    \/ CallWeekday
    \/ CallDayOfMonth
    \/ CallAnnual
    \/ IterateWeekday
    \/ IterateDayOfMonth
    \/ IterateAnnual

Spec == Init /\ [][Next]_vars

TypeOK ==
    /\ op \in {"none", "weekday", "day_of_month", "annual"}
    /\ iter \in 0..MaxIter
    /\ Len(result) <= 1

(***************************************************************************)
(* The calendar the properties are stated in: the proleptic Gregorian      *)
(* calendar without a range, written independently of the definitions      *)
(* above.                                                                  *)
(***************************************************************************)
Leap(y) == IF y % 400 = 0 THEN TRUE ELSE IF y % 100 = 0 THEN FALSE ELSE y % 4 = 0

MonthLength(y, m) ==
    IF m = 2 THEN (IF Leap(y) THEN 29 ELSE 28)
    ELSE <<31, 0, 31, 30, 31, 30, 31, 31, 30, 31, 30, 31>>[m]

\* the longest a month gets in any year
MaxMonthLength(m) == IF m = 2 THEN 29 ELSE MonthLength(1, m)

\* months since year 0, and back
MonthIndex(date) == (date.year * 12) + (date.month - 1)
YearOfIndex(k) == k \div 12
MonthOfIndex(k) == (k % 12) + 1

\* a < b as calendar dates
Before(a, b) ==
    \/ MonthIndex(a) < MonthIndex(b)
    \/ MonthIndex(a) = MonthIndex(b) /\ a.day < b.day

\* days from a to b
DayDiff(a, b) == num_days_from_ce(b) - num_days_from_ce(a)

MaxDate == [year |-> MAX_YEAR, month |-> 12, day |-> 31]

Representable(date) == date.year >= MIN_YEAR /\ date.year <= MAX_YEAR

ValidCalendarDate(date) ==
    /\ Representable(date)
    /\ date.month \in 1..12
    /\ date.day >= 1 /\ date.day <= MonthLength(date.year, date.month)

\* the month with index k has a day n
HasDay(k, n) == n >= 1 /\ n <= MonthLength(YearOfIndex(k), MonthOfIndex(k))

\* day n (in 1..31) of the first month after d's month that has a day n
FirstLaterMonthDay(d, n) ==
    LET k == CHOOSE k \in 1..12 :
                 /\ HasDay(MonthIndex(d) + k, n)
                 /\ \A j \in 1..(k - 1) : ~HasDay(MonthIndex(d) + j, n)
    IN  [year  |-> YearOfIndex(MonthIndex(d) + k),
         month |-> MonthOfIndex(MonthIndex(d) + k),
         day   |-> n]

\* the first date after d whose day of the month is n (in 1..31)
NextDayOfMonth(d, n) ==
    IF n > d.day /\ n <= MonthLength(d.year, d.month)
    THEN [year |-> d.year, month |-> d.month, day |-> n]
    ELSE FirstLaterMonthDay(d, n)

\* no date with day of the month n lies strictly between d and r
NoDayOfMonthBetween(d, r, n) ==
    \A k \in MonthIndex(d)..MonthIndex(r) :
        LET c == [year |-> YearOfIndex(k), month |-> MonthOfIndex(k), day |-> n]
        IN  HasDay(k, n) => ~(Before(d, c) /\ Before(c, r))

\* (m, d) is a date in at least one year
ValidPair(m, d) == m \in 1..12 /\ d >= 1 /\ d <= MaxMonthLength(m)

\* (y, m, d) is a calendar date
Occurs(y, m, d) == m \in 1..12 /\ d >= 1 /\ d <= MonthLength(y, m)

\* how far ahead the properties look for the next (month, day); every valid
\* pair recurs within 8 years
Horizon == 12

\* the first date after cur with month m and day d, for a valid pair
NextAnnual(cur, m, d) ==
    LET after(y) == Occurs(y, m, d)
                      /\ Before(cur, [year |-> y, month |-> m, day |-> d])
        y0 == CHOOSE y \in cur.year..(cur.year + Horizon) :
                  after(y) /\ \A z \in cur.year..(y - 1) : ~after(z)
    IN  [year |-> y0, month |-> m, day |-> d]

\* no date with month m and day d lies strictly between cur and r
NoAnnualBetween(cur, r, m, d) ==
    \A y \in cur.year..r.year :
        LET c == [year |-> y, month |-> m, day |-> d]
        IN  Occurs(y, m, d) => ~(Before(cur, c) /\ Before(c, r))

\* the first leap year in which Feb 29 comes after cur
NextLeapYear(cur) ==
    CHOOSE y \in cur.year..(cur.year + Horizon) :
        /\ Leap(y) /\ Before(cur, [year |-> y, month |-> 2, day |-> 29])
        /\ \A z \in cur.year..(y - 1) :
               ~(Leap(z) /\ Before(cur, [year |-> z, month |-> 2, day |-> 29]))

(***************************************************************************)
(* find_next_weekday                                                       *)
(***************************************************************************)
\* C1: whenever find_next_weekday(D, W) returns a date R, R is 1..7 days
\* after D and falls on W; when D already falls on W, R is exactly D + 7 days
\* and never D itself.
ThmC1 ==
    (op = "weekday" /\ result # None) =>
        LET diff == DayDiff(current_date, result[1])
        IN  /\ diff >= 1 /\ diff <= 7
            /\ weekday(result[1]) = next_weekday
            /\ (weekday(current_date) = next_weekday =>
                    diff = 7 /\ result[1] # current_date)

WitC1 ==
    /\ op = "weekday" /\ iter = 0 /\ result # None
    /\ weekday(current_date) = next_weekday
    /\ DayDiff(current_date, result[1]) = 7

\* the offset of section 4.1 of the specification
Delta(d, w) ==
    (((num_days_from_monday(w) - num_days_from_monday(weekday(d))) + 6) % 7) + 1

\* C7: find_next_weekday(D, W) is empty exactly when D + delta lies beyond
\* the maximum representable date; otherwise it is the date D + delta.
ThmC7 ==
    op = "weekday" =>
        /\ (result = None) <=>
              (num_days_from_ce(current_date) + Delta(current_date, next_weekday)
                  > num_days_from_ce(MaxDate))
        /\ result # None =>
              /\ ValidCalendarDate(result[1])
              /\ DayDiff(current_date, result[1])
                    = Delta(current_date, next_weekday)

WitC7 ==
    /\ op = "weekday" /\ result = None
    /\ current_date.year = MAX_YEAR /\ current_date.month = 12

(***************************************************************************)
(* find_next_day_of_month                                                  *)
(***************************************************************************)
\* C3 as stated: for every D and every N in 1..31 the result is a valid
\* calendar date with day of the month N, strictly after D, at most 12
\* calendar months after D's month, in a month that has N days.
OrigC3 ==
    (op = "day_of_month" /\ next_day \in 1..31) =>
        /\ result # None
        /\ ValidCalendarDate(result[1])
        /\ result[1].day = next_day
        /\ Before(current_date, result[1])
        /\ MonthIndex(result[1]) - MonthIndex(current_date) <= 12
        /\ MonthLength(result[1].year, result[1].month) >= next_day

\* some date after d with day of the month n is representable
RepresentableDayAfter(d, n) ==
    \E y \in d.year..(d.year + 1), m \in 1..12 :
        LET c == [year |-> y, month |-> m, day |-> n]
        IN  Representable(c) /\ n >= 1 /\ n <= MonthLength(y, m) /\ Before(d, c)

\* C3, amended: the same for every D and N in 1..31 for which some date
\* after D with day of the month N is representable; for the other D the
\* result is empty.
ThmC3 ==
    (op = "day_of_month" /\ next_day \in 1..31) =>
        IF RepresentableDayAfter(current_date, next_day)
        THEN /\ result # None
             /\ ValidCalendarDate(result[1])
             /\ result[1].day = next_day
             /\ Before(current_date, result[1])
             /\ MonthIndex(result[1]) - MonthIndex(current_date) <= 12
             /\ MonthLength(result[1].year, result[1].month) >= next_day
        ELSE result = None

WitC3 ==
    /\ op = "day_of_month" /\ next_day = 31 /\ result # None
    /\ current_date.day = 31 /\ current_date.month = 1
    /\ result[1].month = 3 /\ result[1].day = 31

\* C4 as stated: the result is day N of D's month when N > day(D) and D's
\* month has a day N, otherwise day N of the first later month that has a
\* day N; no date with day of the month N lies strictly between D and it.
OrigC4 ==
    (op = "day_of_month" /\ next_day \in 1..31) =>
        /\ result = Some(NextDayOfMonth(current_date, next_day))
        /\ NoDayOfMonthBetween(current_date, result[1], next_day)

\* C4, amended: the same whenever that date is representable, and the empty
\* result when it lies beyond the maximum representable date.
ThmC4 ==
    (op = "day_of_month" /\ next_day \in 1..31) =>
        LET r == NextDayOfMonth(current_date, next_day)
        IN  IF Representable(r)
            THEN /\ result = Some(r)
                 /\ NoDayOfMonthBetween(current_date, result[1], next_day)
            ELSE result = None

\* the day of D does not exist in the month after D's: the first candidate
\* of the scan is a clamped date
WitC4 ==
    /\ op = "day_of_month" /\ iter = 0 /\ result # None
    /\ current_date.day = 31 /\ next_day = 30 /\ iterations = 2
    /\ result[1].day = 30

\* C5: for N outside 1..31 the result is empty, whichever branch is taken.
ThmC5 ==
    (op = "day_of_month" /\ next_day \notin 1..31) => result = None

WitC5 ==
    /\ op = "day_of_month" /\ next_day = 32 /\ result = None
    /\ current_date.day < next_day /\ iterations = MONTH_SCAN + 1

\* C9: for N in 1..31, whenever the next date with day N is representable
\* the search returns it from D's month or from the first or second
\* iteration of the month scan, so within two months of D's month.
ThmC9 ==
    (/\ op = "day_of_month" /\ next_day \in 1..31
     /\ Representable(NextDayOfMonth(current_date, next_day))) =>
        /\ result # None
        /\ iterations <= 2
        /\ MonthIndex(result[1]) - MonthIndex(current_date) \in 0..2
        /\ MonthIndex(result[1]) - MonthIndex(current_date) = iterations

WitC9 ==
    /\ op = "day_of_month" /\ next_day \in 29..31 /\ result # None
    /\ iterations = 2
    /\ MonthIndex(result[1]) - MonthIndex(current_date) = 2

(***************************************************************************)
(* find_next_annual_date                                                   *)
(***************************************************************************)
\* C2 as stated: for every D and every valid (month, day) the result is the
\* minimal date strictly after D with that month and day; for Feb 29 its
\* year is a leap year.
OrigC2 ==
    (op = "annual" /\ ValidPair(next_month, next_day)) =>
        /\ result # None
        /\ result[1].month = next_month /\ result[1].day = next_day
        /\ ValidCalendarDate(result[1])
        /\ Before(current_date, result[1])
        /\ NoAnnualBetween(current_date, result[1], next_month, next_day)
        /\ (next_month = 2 /\ next_day = 29) => Leap(result[1].year)

\* C2, amended: the same whenever the minimal date strictly after D with
\* that month and day is representable, and the empty result when it lies
\* beyond the maximum representable date.
ThmC2 ==
    (op = "annual" /\ ValidPair(next_month, next_day)) =>
        LET r == NextAnnual(current_date, next_month, next_day)
        IN  IF Representable(r)
            THEN /\ result = Some(r)
                 /\ ValidCalendarDate(result[1])
                 /\ Before(current_date, result[1])
                 /\ NoAnnualBetween(current_date, result[1],
                                    next_month, next_day)
                 /\ (next_month = 2 /\ next_day = 29) => Leap(result[1].year)
            ELSE result = None

\* the target is the month and day of D itself
WitC2 ==
    /\ op = "annual" /\ iter = 0 /\ result # None
    /\ next_month = current_date.month /\ next_day = current_date.day
    /\ result[1] = [year |-> current_date.year + 1,
                    month |-> next_month, day |-> next_day]

\* (m, d) is a representable date of year y
RepresentableOccurrence(y, m, d) ==
    Occurs(y, m, d) /\ y >= MIN_YEAR /\ y <= MAX_YEAR

\* C6 as stated: the result is empty whenever (month, day) is a date in no
\* year, and empty only then or when years year(D)..year(D)+8 hold no valid
\* occurrence.
OrigC6 ==
    op = "annual" =>
        /\ ~ValidPair(next_month, next_day) => result = None
        /\ result = None =>
              \/ ~ValidPair(next_month, next_day)
              \/ ~\E y \in current_date.year..(current_date.year + YEAR_SCAN) :
                     RepresentableOccurrence(y, next_month, next_day)

\* C6, amended: ... and empty only then or when years year(D)..year(D)+8
\* hold no valid occurrence strictly after D.
ThmC6 ==
    op = "annual" =>
        /\ ~ValidPair(next_month, next_day) => result = None
        /\ result = None =>
              \/ ~ValidPair(next_month, next_day)
              \/ ~\E y \in current_date.year..(current_date.year + YEAR_SCAN) :
                     /\ RepresentableOccurrence(y, next_month, next_day)
                     /\ Before(current_date,
                               [year |-> y, month |-> next_month,
                                day |-> next_day])

\* a valid pair, an occurrence in year(D) that is not after D, no later year
WitC6 ==
    /\ op = "annual" /\ result = None /\ iterations = YEAR_SCAN + 1
    /\ ValidPair(next_month, next_day)
    /\ RepresentableOccurrence(current_date.year, next_month, next_day)

\* D is in a non-leap year, or on or after Feb 29 of a leap year
PastFeb29(d) == ~Leap(d.year) \/ d.month > 2 \/ (d.month = 2 /\ d.day = 29)

\* C8 as stated: for (2, 29) and such a D the year scan finds the next leap
\* year, at most 4 years after year(D), within its 8 iterations.
OrigC8 ==
    (op = "annual" /\ next_month = 2 /\ next_day = 29
       /\ PastFeb29(current_date)) =>
        /\ result = Some([year |-> NextLeapYear(current_date),
                          month |-> 2, day |-> 29])
        /\ iterations >= 1 /\ iterations <= YEAR_SCAN
        /\ result[1].year - current_date.year <= 4

\* C8, amended: the year scan finds the next leap year at most 8 years
\* after year(D), within its 8 iterations, whenever that year is
\* representable; the result is empty only when it is not.
ThmC8 ==
    (op = "annual" /\ next_month = 2 /\ next_day = 29
       /\ PastFeb29(current_date)) =>
        IF NextLeapYear(current_date) <= MAX_YEAR
        THEN /\ result = Some([year |-> NextLeapYear(current_date),
                               month |-> 2, day |-> 29])
             /\ iterations >= 1 /\ iterations <= YEAR_SCAN
             /\ iterations = result[1].year - current_date.year
             /\ result[1].year - current_date.year <= 8
        ELSE result = None

\* across a century year that is not a leap year
WitC8 ==
    /\ op = "annual" /\ next_month = 2 /\ next_day = 29 /\ result # None
    /\ PastFeb29(current_date) /\ Leap(current_date.year)
    /\ iterations = 8
    /\ result[1].year = current_date.year + 8

(***************************************************************************)
(* Iteration                                                               *)
(***************************************************************************)
\* the first year after y in which (m, d) is a date
NextYearWith(y, m, d) ==
    CHOOSE z \in (y + 1)..(y + Horizon) :
        Occurs(z, m, d) /\ \A x \in (y + 1)..(z - 1) : ~Occurs(x, m, d)

\* C10: a result fed back as current_date with the same target gives a
\* strictly later date: 7 days later for a weekday, day N of the next month
\* that has a day N for a day of the month, the same month and day of the
\* next year that has it for an annual date; nothing is skipped or repeated.
ThmC10 ==
    (iter > 0 /\ result # None) =>
        /\ Before(current_date, result[1])
        /\ op = "weekday" =>
              /\ weekday(current_date) = next_weekday
              /\ weekday(result[1]) = next_weekday
              /\ DayDiff(current_date, result[1]) = 7
        /\ op = "day_of_month" =>
              /\ current_date.day = next_day
              /\ result[1] = FirstLaterMonthDay(current_date, next_day)
        /\ op = "annual" =>
              /\ current_date.month = next_month
              /\ current_date.day = next_day
              /\ result[1] = [year  |-> NextYearWith(current_date.year,
                                                     next_month, next_day),
                              month |-> next_month, day |-> next_day]

\* day 31, twice in a row over a month that has no day 31
WitC10 ==
    /\ iter = MaxIter /\ op = "day_of_month" /\ next_day = 31
    /\ result # None
    /\ MonthIndex(result[1]) - MonthIndex(current_date) = 2

====
